---- MODULE Spec2Model ----
(***************************************************************************)
(* Model of dblp-rs: the bibliography store commands of src/main.rs (Add,  *)
(* Convert) and the notes directory of src/notes.rs.                       *)
(*                                                                         *)
(* Text is a sequence of one-character strings, so that substring tests,   *)
(* splitting on a delimiter and the newline added by writeln! are computed *)
(* the way the Rust code computes them.                                    *)
(***************************************************************************)
EXTENDS Integers, Sequences, FiniteSets, TLC

\* ------------------------------------------------------------------ text
NL == "\n"

IsPrefixAt(pat, s, i) ==
    /\ i >= 1
    /\ i + Len(pat) - 1 <= Len(s)
    /\ SubSeq(s, i, i + Len(pat) - 1) = pat

\* str::contains
Contains(s, pat) == \E i \in 1..(Len(s) + 1) : IsPrefixAt(pat, s, i)

\* str::starts_with
StartsWith(s, pat) == IsPrefixAt(pat, s, 1)

\* str::find: index of the leftmost match at or after position from, 0 if none
FindFrom(s, pat, from) ==
    LET hits == {i \in from..(Len(s) + 1) : IsPrefixAt(pat, s, i)}
    IN  IF hits = {} THEN 0 ELSE CHOOSE i \in hits : \A j \in hits : i <= j

\* str::split(pat): the chunks between leftmost, non-overlapping matches
RECURSIVE Split(_, _)
Split(s, pat) ==
    LET i == FindFrom(s, pat, 1)
    IN  IF i = 0 THEN <<s>>
        ELSE <<SubSeq(s, 1, i - 1)>> \o Split(SubSeq(s, i + Len(pat), Len(s)), pat)

\* str::replace(pat, to): every leftmost, non-overlapping match is replaced
RECURSIVE Replace(_, _, _)
Replace(s, pat, to) ==
    LET i == FindFrom(s, pat, 1)
    IN  IF i = 0 THEN s
        ELSE SubSeq(s, 1, i - 1) \o to \o Replace(SubSeq(s, i + Len(pat), Len(s)), pat, to)

\* BufRead::lines: the lines of a text, a final empty chunk is not a line
Lines(s) ==
    LET chunks == Split(s, <<NL>>)
    IN  IF chunks[Len(chunks)] = <<>> THEN SubSeq(chunks, 1, Len(chunks) - 1) ELSE chunks

\* number of positions at which pat occurs in s
Occurrences(s, pat) == Cardinality({i \in 1..Len(s) : IsPrefixAt(pat, s, i)})


\* --------------------------------------------------------------- bounds
\* number of invocations of the program in one behaviour
MaxRuns == 2

\* ------------------------------------------------------- record model
\* "DBLP", the test of the conversion loop (main.rs:260)
DBLP == <<"D", "B", "L", "P">>

\* "DBLP:", the prefix of get_key and of the conversion loop (main.rs:56, 261)
PREFIX == <<"D", "B", "L", "P", ":">>

\* DblpHitInfo::get_key
get_key(key) == PREFIX \o key

\* Format::get_param
get_param(format) == IF format = "Standard" THEN "?param=1" ELSE "?param=0"

\* DblpHitInfo::bib_url: the record's url with the format's parameter
bib_url(item, bibtype) ==
    [rec |-> item.url, param |-> IF bibtype = "Standard" THEN "?param=1" ELSE "?param=0"]

Formats == {"Condensed", "Standard"}

\* the hits a search can return; the catalog's url of a record ends in its key
Records == {[key |-> k, url |-> k] : k \in {<<"a">>, <<"a", "b">>, <<"c">>}}

\* the citation text the catalog serves for a record in a format
Canonical(rec, param) ==
    <<"@", "{">> \o PREFIX \o rec \o <<",", IF param = "?param=1" THEN "1" ELSE "0", "}">>

\* ureq::get(url).call()?.into_string()?: the bodies a successful request
\* can return (the catalog is outside the program: its citation text, or a
\* body without the key)
Responses(req) == {Canonical(req.rec, req.param), <<>>}

\* ----------------------------------------------------------- file system
\* a file: absent, or present with its text
Absent == [exists |-> FALSE, data |-> <<>>]
FileOf(text) == [exists |-> TRUE, data |-> text]

\* PathBuf::with_extension on a file name: the part after the last dot, when
\* that dot is not the first character, is replaced
with_extension(path, ext) ==
    LET dots == {i \in 2..Len(path) : path[i] = "."}
        stem == IF dots = {} THEN path
                ELSE SubSeq(path, 1, (CHOOSE i \in dots : \A j \in dots : j <= i) - 1)
    IN  stem \o <<".">> \o ext

\* Cli::get_backup_bib_path
get_backup_bib_path(path) == with_extension(path, <<"b", "i", "b", ".", "b", "a", "k">>)

\* the --bibtex argument
BibPaths == {<<"r", ".", "b", "i", "b">>, <<"r">>}

AllPaths == BibPaths \cup {get_backup_bib_path(p) : p \in BibPaths}

\* ------------------------------------------------- citation text (biblatex)
\* Bibliography::parse on a reduced citation syntax: an entry is
\* "@{" key "," body "}", text between entries is ignored, an entry that is
\* not opened by "{" or not closed by "}" is a syntax error.
RECURSIVE Parse(_)
Parse(s) ==
    LET i == FindFrom(s, <<"@">>, 1)
        j == FindFrom(s, <<"}">>, i + 2)
        inner == SubSeq(s, i + 2, j - 1)
        c == FindFrom(inner, <<",">>, 1)
        entry == [key |-> IF c = 0 THEN inner ELSE SubSeq(inner, 1, c - 1),
                  body |-> IF c = 0 THEN <<>> ELSE SubSeq(inner, c + 1, Len(inner))]
        rest == Parse(SubSeq(s, j + 1, Len(s)))
    IN  IF i = 0 THEN [ok |-> TRUE, entries |-> <<>>]
        ELSE IF ~IsPrefixAt(<<"{">>, s, i + 1) \/ j = 0 THEN [ok |-> FALSE, entries |-> <<>>]
        ELSE [ok |-> rest.ok, entries |-> IF rest.ok THEN <<entry>> \o rest.entries ELSE <<>>]

\* Entry::to_bibtex_string
to_bibtex_string(entry) == <<"@", "{">> \o entry.key \o <<",">> \o entry.body \o <<"}">>

\* ------------------------------------------------------------------ state
VARIABLES
    fs,            \* the files: path -> file
    bib_path,      \* cli.get_bib_path()
    pc,            \* position of the running invocation, "idle" between two
    selection,     \* Add: the selected record
    to,            \* Convert: the target format
    src,           \* Convert: the text read from the store
    bibliography,  \* Convert: the parsed entries
    idx,           \* Convert: the entry the loop is at
    requests,      \* the remote requests of the running invocation, with their results
    clipboard,     \* the texts handed to write_clipboard
    start,         \* the store file when the running invocation began
    log,           \* the finished invocations
    dir,           \* notes: the files of the directory: name -> file
    nlog,          \* notes: the finished create_notes_file calls
    content,       \* header codec: the text given to get_metadata_str
    meta           \* header codec: its result

storeVars == <<fs, bib_path, pc, selection, to, src, bibliography, idx, requests, clipboard,
              start, log>>
noteVars == <<dir, nlog>>
metaVars == <<content, meta>>
vars == <<storeVars, noteVars, metaVars>>

store == fs[bib_path]
backup == fs[get_backup_bib_path(bib_path)]

NoRecord == [key |-> <<>>, url |-> <<>>]

\* is_present comparing whole lines with the key
is_present_m(file, item) ==
    LET bib_key == get_key(item.key)
    IN  /\ file.exists
        /\ \E n \in 1..Len(Lines(file.data)) : Lines(file.data)[n] = bib_key

\* is_present: some line of the store contains the record's key
is_present(file, item) ==
    LET bib_key == get_key(item.key)
    IN  /\ file.exists
        /\ \E n \in 1..Len(Lines(file.data)) : Contains(Lines(file.data)[n], bib_key)

\* the store texts an invocation can find
T(key, body) == <<"@", "{">> \o key \o <<",">> \o body \o <<"}", NL>>
InitialStores ==
    { Absent,
      FileOf(<<>>),
      FileOf(T(PREFIX \o <<"a", "b">>, <<"0">>)),
      FileOf(T(<<"x">>, <<>>) \o T(PREFIX \o <<"a">>, <<"0">>)),
      FileOf(T(PREFIX \o <<"a">>, <<"0">>) \o T(<<"y">>, PREFIX \o <<"a">>)),
      FileOf(T(PREFIX \o <<"a">>, <<"0">>) \o T(PREFIX \o <<"b">>, <<"0">>)
             \o T(PREFIX \o <<"c">>, <<"0">>)),
      FileOf(T(DBLP \o <<"a">>, <<>>) \o T(PREFIX \o <<"a">> \o PREFIX \o <<"b">>, <<>>)),
      FileOf(T(<<"x">>, <<>>) \o <<"@", "{", "y">>) }

StoreInit ==
    /\ bib_path \in BibPaths
    /\ \E f \in InitialStores : fs = [p \in AllPaths |-> IF p = bib_path THEN f ELSE Absent]
    /\ pc = "idle"
    /\ selection = NoRecord
    /\ to = "Condensed"
    /\ src = <<>>
    /\ bibliography = <<>>
    /\ idx = 0
    /\ requests = <<>>
    /\ clipboard = <<>>
    /\ start = Absent
    /\ log = <<>>

\* the invocation ends: its record goes to the log
Finish(cmd, arg, files, outcome, reqs, clip) ==
    /\ pc' = "idle"
    /\ log' = Append(log, [cmd |-> cmd, arg |-> arg, start |-> IF pc = "idle" THEN store ELSE start,
                           end |-> files[bib_path],
                           backup |-> files[get_backup_bib_path(bib_path)],
                           outcome |-> outcome, requests |-> reqs, clip |-> clip])
    /\ requests' = <<>>
    /\ selection' = NoRecord
    /\ src' = <<>>
    /\ bibliography' = <<>>
    /\ idx' = 0
    /\ start' = Absent

\* ------------------------------------------------------ Actions::Add
\* the search and the selection fail (no response, or the operator aborts)
AddNoSelection ==
    /\ pc = "idle"
    /\ Len(log) < MaxRuns
    /\ Finish("add", NoRecord, fs, "err", <<>>, <<>>)
    /\ UNCHANGED <<fs, bib_path, to, clipboard>>

\* the selection without the membership check: every record is fetched
AddSelect_m(item) ==
    /\ pc = "idle"
    /\ Len(log) < MaxRuns
    /\ selection' = item
    /\ start' = store
    /\ pc' = "fetch"
    /\ UNCHANGED <<fs, bib_path, to, src, bibliography, idx, requests, clipboard, log>>

\* show_and_select returns a record, is_present decides whether to fetch
AddSelect(item) ==
    /\ pc = "idle"
    /\ Len(log) < MaxRuns
    /\ selection' = item
    /\ start' = store
    /\ pc' = IF is_present(store, item) THEN "clipboard" ELSE "fetch"
    /\ UNCHANGED <<fs, bib_path, to, src, bibliography, idx, requests, clipboard, log>>

\* the citation is fetched in the standard format and appended with writeln!
AddFetch(bib) ==
    LET req == bib_url(selection, "Standard")
    IN  /\ pc = "fetch"
        /\ bib \in Responses(req)
        /\ requests' = Append(requests, [req |-> req, ok |-> TRUE, text |-> bib, entry |-> 0])
        /\ fs' = [fs EXCEPT ![bib_path] = FileOf(store.data \o bib \o <<NL>>)]
        /\ pc' = "clipboard"
        /\ UNCHANGED <<bib_path, selection, to, src, bibliography, idx, clipboard, start, log>>

\* the request fails: call()? returns from main
AddFetchFail ==
    LET req == bib_url(selection, "Standard")
    IN  /\ pc = "fetch"
        /\ Finish("add", selection, fs, "err",
                  Append(requests, [req |-> req, ok |-> FALSE, text |-> <<>>, entry |-> 0]), <<>>)
        /\ UNCHANGED <<fs, bib_path, to, clipboard>>

\* write_clipboard(&format!("DBLP:{}", selection.key)), which may fail
AddClipboard(ok) ==
    LET what == PREFIX \o selection.key
    IN  /\ pc = "clipboard"
        /\ clipboard' = Append(clipboard, what)
        /\ Finish("add", selection, fs, IF ok THEN "ok" ELSE "err", requests, what)
        /\ UNCHANGED <<fs, bib_path, to>>

Add ==
    \/ AddNoSelection
    \/ \E item \in Records : AddSelect(item)
    \/ \E bib \in UNION {Responses(bib_url(r, "Standard")) : r \in Records} : AddFetch(bib)
    \/ AddFetchFail
    \/ \E ok \in BOOLEAN : AddClipboard(ok)

\* -------------------------------------------------- Actions::Convert
\* File::open(&bib_path)? and read_to_string
ConvertRead(format) ==
    /\ pc = "idle"
    /\ Len(log) < MaxRuns
    /\ store.exists
    /\ to' = format
    /\ src' = store.data
    /\ start' = store
    /\ pc' = "backup"
    /\ UNCHANGED <<fs, bib_path, selection, bibliography, idx, requests, clipboard, log>>

\* the store file cannot be opened
ConvertReadFail(format) ==
    /\ pc = "idle"
    /\ Len(log) < MaxRuns
    /\ ~store.exists
    /\ to' = format
    /\ Finish("convert", format, fs, "err", <<>>, <<>>)
    /\ UNCHANGED <<fs, bib_path, clipboard>>

\* the backup file is created and nothing is written to it
ConvertBackup_m ==
    /\ pc = "backup"
    /\ fs' = [fs EXCEPT ![get_backup_bib_path(bib_path)] = FileOf(<<>>)]
    /\ pc' = "truncate"
    /\ UNCHANGED <<bib_path, selection, to, src, bibliography, idx, requests, clipboard, start, log>>

\* File::create(backup path) and writeln!(f, "{}", src)
ConvertBackup ==
    /\ pc = "backup"
    /\ fs' = [fs EXCEPT ![get_backup_bib_path(bib_path)] = FileOf(src \o <<NL>>)]
    /\ pc' = "truncate"
    /\ UNCHANGED <<bib_path, selection, to, src, bibliography, idx, requests, clipboard, start, log>>

\* the backup cannot be created, or is created and cannot be written
ConvertBackupFail(created) ==
    LET files == IF created THEN [fs EXCEPT ![get_backup_bib_path(bib_path)] = FileOf(<<>>)]
                 ELSE fs
    IN  /\ pc = "backup"
        /\ fs' = files
        /\ Finish("convert", to, files, "err", requests, <<>>)
        /\ UNCHANGED <<bib_path, to, clipboard>>

\* File::create(bib_path): the store file is truncated
ConvertTruncate ==
    /\ pc = "truncate"
    /\ fs' = [fs EXCEPT ![bib_path] = FileOf(<<>>)]
    /\ pc' = "parse"
    /\ UNCHANGED <<bib_path, selection, to, src, bibliography, idx, requests, clipboard, start, log>>

\* the store file cannot be created
ConvertTruncateFail ==
    /\ pc = "truncate"
    /\ Finish("convert", to, fs, "err", requests, <<>>)
    /\ UNCHANGED <<fs, bib_path, to, clipboard>>

\* Bibliography::parse(&src).unwrap()
ConvertParse ==
    LET parsed == Parse(src)
    IN  /\ pc = "parse"
        /\ IF parsed.ok
           THEN /\ bibliography' = parsed.entries
                /\ idx' = 1
                /\ pc' = "loop"
                /\ UNCHANGED <<selection, src, requests, start, log>>
           ELSE Finish("convert", to, fs, "panic", requests, <<>>)
        /\ UNCHANGED <<fs, bib_path, to, clipboard>>

\* one iteration of the loop over an entry that starts with "DBLP": the
\* record is fetched and written with writeln!(f, "{}\n", bib)
ConvertFetch(bib) ==
    LET entry == bibliography[idx]
        k == Replace(entry.key, PREFIX, <<>>)
        url == [rec |-> k, param |-> get_param(to)]
    IN  /\ pc = "loop"
        /\ idx <= Len(bibliography)
        /\ StartsWith(entry.key, DBLP)
        /\ bib \in Responses(url)
        /\ requests' = Append(requests, [req |-> url, ok |-> TRUE, text |-> bib, entry |-> idx])
        /\ fs' = [fs EXCEPT ![bib_path] = FileOf(store.data \o bib \o <<NL, NL>>)]
        /\ idx' = idx + 1
        /\ UNCHANGED <<bib_path, pc, selection, to, src, bibliography, clipboard, start, log>>

\* the request of an iteration fails: call()? returns from main
ConvertFetchFail ==
    LET entry == bibliography[idx]
        k == Replace(entry.key, PREFIX, <<>>)
        url == [rec |-> k, param |-> get_param(to)]
    IN  /\ pc = "loop"
        /\ idx <= Len(bibliography)
        /\ StartsWith(entry.key, DBLP)
        /\ Finish("convert", to, fs, "err",
                  Append(requests, [req |-> url, ok |-> FALSE, text |-> <<>>, entry |-> idx]), <<>>)
        /\ UNCHANGED <<fs, bib_path, to, clipboard>>

\* one iteration over any other entry: its own text is written
ConvertLocal ==
    LET entry == bibliography[idx]
    IN  /\ pc = "loop"
        /\ idx <= Len(bibliography)
        /\ ~StartsWith(entry.key, DBLP)
        /\ fs' = [fs EXCEPT ![bib_path] =
                      FileOf(store.data \o to_bibtex_string(entry) \o <<NL, NL>>)]
        /\ idx' = idx + 1
        /\ UNCHANGED <<bib_path, pc, selection, to, src, bibliography, requests, clipboard,
                       start, log>>

\* the loop is over: Ok(())
ConvertDone ==
    /\ pc = "loop"
    /\ idx > Len(bibliography)
    /\ Finish("convert", to, fs, "ok", requests, <<>>)
    /\ UNCHANGED <<fs, bib_path, to, clipboard>>

Convert ==
    \/ \E format \in Formats : ConvertRead(format)
    \/ \E format \in Formats : ConvertReadFail(format)
    \/ ConvertBackup
    \/ \E created \in BOOLEAN : ConvertBackupFail(created)
    \/ ConvertTruncate
    \/ ConvertTruncateFail
    \/ ConvertParse
    \/ \E bib \in {Canonical(Replace(e.key, PREFIX, <<>>), get_param(to)) : e \in
                       {bibliography[n] : n \in 1..Len(bibliography)}} \cup {<<>>} :
           ConvertFetch(bib)
    \/ ConvertFetchFail
    \/ ConvertLocal
    \/ ConvertDone

\* ------------------------------------------------------------- notes.rs
DELIM == <<"-", "-", "-">>
Whitespace == {" ", NL}

\* str::trim
RECURSIVE trim(_)
trim(s) ==
    IF s = <<>> THEN s
    ELSE IF s[1] \in Whitespace THEN trim(Tail(s))
    ELSE IF s[Len(s)] \in Whitespace THEN trim(SubSeq(s, 1, Len(s) - 1))
    ELSE s

None == [some |-> FALSE, str |-> <<>>]
Some(str) == [some |-> TRUE, str |-> str]

\* get_metadata_str without the test of the third chunk
get_metadata_str_m(text) ==
    LET chunks == Split(text, DELIM)
        before == chunks[1]
    IN  IF trim(before) # <<>> THEN None
        ELSE IF Len(chunks) < 2 THEN None
        ELSE Some(chunks[2])

\* get_metadata_str: the second chunk of content.split("---"), when the
\* first trims to nothing and there is a third
get_metadata_str(text) ==
    LET chunks == Split(text, DELIM)
        before == chunks[1]
    IN  IF trim(before) # <<>> THEN None
        ELSE IF Len(chunks) < 3 THEN None
        ELSE Some(chunks[2])

\* serde_yaml::from_str::<ShortMetadata> on a reduced YAML: a block of
\* "name: value" lines; a line without ": " is malformed, the fields title
\* and key are both required exactly once, other fields are ignored
from_str(meta_str) ==
    LET raw == Split(meta_str, <<NL>>)
        rows == {n \in 1..Len(raw) : trim(raw[n]) # <<>>}
        colon(n) == FindFrom(trim(raw[n]), <<":", " ">>, 1)
        name(n) == SubSeq(trim(raw[n]), 1, colon(n) - 1)
        value(n) == trim(SubSeq(trim(raw[n]), colon(n) + 2, Len(trim(raw[n]))))
        keys == {n \in rows : colon(n) # 0 /\ name(n) = <<"k", "e", "y">>}
        titles == {n \in rows : colon(n) # 0 /\ name(n) = <<"t", "i", "t", "l", "e">>}
    IN  IF (\A n \in rows : colon(n) # 0) /\ Cardinality(keys) = 1 /\ Cardinality(titles) = 1
        THEN [ok |-> TRUE, key |-> value(CHOOSE n \in keys : TRUE),
              title |-> value(CHOOSE n \in titles : TRUE)]
        ELSE [ok |-> FALSE, key |-> <<>>, title |-> <<>>]

\* ShortMetadata::try_from
try_from(value) ==
    LET meta_str == get_metadata_str(value)
    IN  IF meta_str.some THEN from_str(meta_str.str)
        ELSE [ok |-> FALSE, key |-> <<>>, title |-> <<>>]

\* files_with_metadata: the files of the directory that have a header, with it
files_with_metadata(directory) ==
    {[path |-> p, meta |-> try_from(directory[p].data)] :
        p \in {q \in DOMAIN directory : directory[q].exists /\ try_from(directory[q].data).ok}}

\* dblp::fetch_bibtex: the entry of a key, as the catalog has it
fetch_bibtex(bib_key) == [title |-> <<"p">>]

\* serde_yaml::to_string of the entry: one "name: value" line per field
to_string(entry) == <<"t", "i", "t", "l", "e", ":", " ">> \o entry.title \o <<NL>>

\* the text create_notes_file writes: "---\nkey: {}\n{}---" and a newline
NoteText(bib_key, yaml_str) ==
    DELIM \o <<NL, "k", "e", "y", ":", " ">> \o bib_key \o <<NL>> \o yaml_str \o DELIM \o <<NL>>

\* the path create_notes_file writes to: the title with ':' replaced by '-'
\* and the extension md
NotePath(title) == with_extension(Replace(title, <<":">>, <<"-">>), <<"m", "d">>)

\* number of create_notes_file calls in one behaviour
MaxCalls == 2

NoteKeys == {<<"k">>, <<"j">>, <<"k", "-", "-", "-", "j">>}
NoteTitles == {<<"t", ":", "1">>, <<"t", "-", "1">>, <<"u">>}

\* the files a directory can hold before the first call
OwnNote == <<"n", ".", "m", "d">>
InitialDirs ==
    { {},
      {<<OwnNote, NoteText(<<"k">>, to_string([title |-> <<"o">>])) \o <<"x">>>>},
      {<<OwnNote, <<"x", NL>> \o NoteText(<<"j">>, to_string([title |-> <<"o">>]))>>} }

NotePaths == {NotePath(t) : t \in NoteTitles} \cup {OwnNote}

NoteInit ==
    /\ \E d \in InitialDirs :
          dir = [p \in NotePaths |->
                    IF \E f \in d : f[1] = p THEN FileOf((CHOOSE f \in d : f[1] = p)[2])
                    ELSE Absent]
    /\ nlog = <<>>

\* the files with a header whose key is the requested one
Existing(directory, bib_key) == {e \in files_with_metadata(directory) : e.meta.key = bib_key}

\* create_notes_file finds the key in the directory and bails
CreateExisting(bib_key, title) ==
    /\ Len(nlog) < MaxCalls
    /\ \E existing \in Existing(dir, bib_key) :
          nlog' = Append(nlog, [key |-> bib_key, title |-> title, before |-> dir, after |-> dir,
                                outcome |-> "existing", path |-> existing.path,
                                fetched |-> FALSE])
    /\ UNCHANGED dir

\* create_notes_file does not find the key, and the fetch fails
CreateFetchFail(bib_key, title) ==
    /\ Len(nlog) < MaxCalls
    /\ Existing(dir, bib_key) = {}
    /\ nlog' = Append(nlog, [key |-> bib_key, title |-> title, before |-> dir, after |-> dir,
                             outcome |-> "err", path |-> <<>>, fetched |-> TRUE])
    /\ UNCHANGED dir

\* create_notes_file writing the file without looking for the key
CreateOk_m(bib_key, title) ==
    LET p == NotePath(title)
        yaml_str == to_string(fetch_bibtex(bib_key))
    IN  /\ Len(nlog) < MaxCalls
        /\ dir' = [dir EXCEPT ![p] = FileOf(NoteText(bib_key, yaml_str))]
        /\ nlog' = Append(nlog, [key |-> bib_key, title |-> title, before |-> dir, after |-> dir',
                                 outcome |-> "ok", path |-> p, fetched |-> TRUE])

\* create_notes_file does not find the key, fetches the entry and writes the file
CreateOk(bib_key, title) ==
    LET p == NotePath(title)
        yaml_str == to_string(fetch_bibtex(bib_key))
    IN  /\ Len(nlog) < MaxCalls
        /\ Existing(dir, bib_key) = {}
        /\ dir' = [dir EXCEPT ![p] = FileOf(NoteText(bib_key, yaml_str))]
        /\ nlog' = Append(nlog, [key |-> bib_key, title |-> title, before |-> dir, after |-> dir',
                                 outcome |-> "ok", path |-> p, fetched |-> TRUE])

create_notes_file ==
    \E bib_key \in NoteKeys, title \in NoteTitles :
        \/ CreateExisting(bib_key, title)
        \/ CreateFetchFail(bib_key, title)
        \/ CreateOk(bib_key, title)

\* ------------------------------------------------- the header codec alone
\* longest text given to get_metadata_str
MaxLen == 7
Alphabet == {"-", " ", "a"}

Texts == UNION {[1..n -> Alphabet] : n \in 0..MaxLen}

MetaInit == content \in Texts /\ meta = [done |-> FALSE, result |-> None]

Decode ==
    /\ ~meta.done
    /\ meta' = [done |-> TRUE, result |-> get_metadata_str(content)]
    /\ UNCHANGED content

StoreIdle ==
    /\ bib_path = <<"r">>
    /\ fs = [p \in AllPaths |-> Absent]
    /\ pc = "idle"
    /\ selection = NoRecord
    /\ to = "Condensed"
    /\ src = <<>>
    /\ bibliography = <<>>
    /\ idx = 0
    /\ requests = <<>>
    /\ clipboard = <<>>
    /\ start = Absent
    /\ log = <<>>
NoteIdle == dir = [p \in NotePaths |-> Absent] /\ nlog = <<>>
MetaIdle == content = <<>> /\ meta = [done |-> FALSE, result |-> None]

Init == StoreInit /\ NoteIdle /\ MetaIdle

Next == (Add \/ Convert) /\ UNCHANGED <<noteVars, metaVars>>

Spec == Init /\ [][Next]_vars

\* the notes directory under a sequence of create_notes_file calls
InitNotes == StoreIdle /\ NoteInit /\ MetaIdle
NextNotes == create_notes_file /\ UNCHANGED <<storeVars, metaVars>>
SpecNotes == InitNotes /\ [][NextNotes]_vars

\* get_metadata_str on every text up to MaxLen
InitMeta == StoreIdle /\ NoteIdle /\ MetaInit
NextMeta == Decode /\ UNCHANGED <<storeVars, noteVars>>
SpecMeta == InitMeta /\ [][NextMeta]_vars

\* ------------------------------------------------------------ properties
\* the text of a file has the key somewhere (a key has no newline, so an
\* occurrence lies within one line)
HasKey(file, key) == file.exists /\ Contains(file.data, key)

AddRuns == {n \in 1..Len(log) : log[n].cmd = "add" /\ log[n].arg # NoRecord}
ConvertRuns == {n \in 1..Len(log) : log[n].cmd = "convert"}

\* two Add invocations in a row with the same record
AddTwice == {n \in AddRuns : n + 1 \in AddRuns /\ log[n + 1].arg = log[n].arg}

\* the store text is empty or ends with a newline
NewlineTerminated(file) == file.data = <<>> \/ file.data[Len(file.data)] = NL

\* C1 as stated: after two completed Add invocations in a row with the same
\* record, each fetched text holding the key once, the store has exactly one
\* occurrence of "DBLP:" + key, whatever it held before, and the second
\* invocation made no request and no write.
C1_AsStated ==
    \A n \in AddTwice :
        LET key == get_key(log[n].arg.key)
        IN  (/\ log[n].outcome = "ok"
             /\ log[n + 1].outcome = "ok"
             /\ \A q \in 1..Len(log[n].requests) : Occurrences(log[n].requests[q].text, key) = 1)
            => /\ Occurrences(log[n + 1].end.data, key) = 1
               /\ log[n + 1].requests = <<>>
               /\ log[n + 1].end = log[n + 1].start

\* C1 amended: when the first of two Add invocations in a row with the same
\* record completes, and the text it fetched (if it fetched) contains
\* "DBLP:" + key, the second makes no request and no write: the store is the
\* one the first left. It has exactly one occurrence of the key when it had
\* at most one before, was empty or newline-terminated, and the fetched text
\* has exactly one; occurrences the store already had are all kept.
C1_SecondAddIsNoOp ==
    \A n \in AddTwice :
        LET first == log[n]
            second == log[n + 1]
            key == get_key(first.arg.key)
        IN  (/\ first.outcome = "ok"
             /\ \A q \in 1..Len(first.requests) : Contains(first.requests[q].text, key))
            => /\ second.requests = <<>>
               /\ second.end = first.end
               /\ Occurrences(second.end.data, key) >= Occurrences(first.start.data, key)
               /\ (/\ Occurrences(first.start.data, key) <= 1
                   /\ NewlineTerminated(first.start)
                   /\ \A q \in 1..Len(first.requests) :
                         Occurrences(first.requests[q].text, key) = 1)
                  => Occurrences(second.end.data, key) = 1

\* C1 witness: the first invocation fetched and appended the citation of a
\* key the store did not have, the second one ran on that store
C1_Witness ==
    \E n \in AddTwice :
        /\ log[n].outcome = "ok"
        /\ Len(log[n].requests) = 1
        /\ Contains(log[n].requests[1].text, get_key(log[n].arg.key))
        /\ ~HasKey(log[n].start, get_key(log[n].arg.key))
        /\ log[n + 1].requests = <<>>
        /\ Occurrences(log[n + 1].end.data, get_key(log[n].arg.key)) = 1

\* C2 as stated: once a conversion is past the backup step, the backup file
\* holds exactly the text the store held when the conversion began.
C2_BackupIsExactCopy ==
    pc \in {"truncate", "parse", "loop"} => backup.exists /\ backup.data = start.data

\* C3 as stated: a conversion in which a request failed still completes, the
\* rewritten store has as many records as the store had, and the record of
\* each failed request is the entry's own text.
C3_FallbackAndContinue ==
    \A n \in ConvertRuns :
        LET run == log[n]
            before == Parse(run.start.data).entries
            after == Parse(run.end.data).entries
        IN  (\E q \in 1..Len(run.requests) : ~run.requests[q].ok)
            => /\ run.outcome = "ok"
               /\ Len(after) = Len(before)
               /\ \A q \in 1..Len(run.requests) :
                      ~run.requests[q].ok
                      => after[run.requests[q].entry] = before[run.requests[q].entry]

\* C7: an Add invocation on a store with a line containing "DBLP:" + key
\* makes no request, leaves the store file as it was and hands "DBLP:" + key
\* to the clipboard; on a missing store file the membership check answers
\* false, so the invocation goes on to the request.
C7_PresentKeyIsSkipped ==
    \A n \in AddRuns :
        LET run == log[n]
            key == PREFIX \o run.arg.key
        IN  /\ HasKey(run.start, key)
               => /\ run.requests = <<>>
                  /\ run.end = run.start
                  /\ run.clip = key
            /\ ~run.start.exists => Len(run.requests) = 1

\* C7 witness: an Add invocation found the key in a line that holds more
\* than the key, and ended
C7_Witness ==
    \E n \in AddRuns :
        /\ HasKey(log[n].start, PREFIX \o log[n].arg.key)
        /\ log[n].clip = PREFIX \o log[n].arg.key
        /\ log[n].outcome = "ok"

\* C8: a step of a conversion changes or truncates the store file only when
\* the backup file already holds the whole text read from the store; a
\* conversion that fails at the backup step ends with the store file as it
\* was.
C8_BackupBeforeTruncate ==
    [][/\ (pc \in {"backup", "truncate", "parse", "loop"}
            /\ (fs'[bib_path] # fs[bib_path] \/ pc' = "parse"))
           => /\ backup.exists
              /\ StartsWith(backup.data, src)
              /\ src = start.data
       /\ (pc = "backup" /\ pc' = "idle")
           => /\ log'[Len(log')].outcome = "err"
              /\ fs'[bib_path] = start]_vars

\* C8 witness: the store file of a non-empty store has been truncated and
\* the backup holds its text
C8_Witness ==
    /\ pc = "parse"
    /\ start.data # <<>>
    /\ store.data = <<>>
    /\ StartsWith(backup.data, start.data)

\* C9 as stated: a conversion whose parse of the store text fails ends with
\* the store file holding the text it held before.
C9_ParseFailureKeepsStore ==
    \A n \in ConvertRuns : log[n].outcome = "panic" => log[n].end = log[n].start

\* C10 as stated: a conversion requests an entry from the catalog exactly
\* when its key starts with "DBLP:", and the key requested is the entry's
\* key without these five leading characters.
C10_RequestIffPrefix ==
    /\ \A q \in 1..Len(requests) :
          LET key == bibliography[requests[q].entry].key
          IN  pc = "loop"
              => /\ StartsWith(key, PREFIX)
                 /\ requests[q].req.rec = SubSeq(key, Len(PREFIX) + 1, Len(key))
    /\ pc = "loop"
       => \A e \in 1..(idx - 1) :
              StartsWith(bibliography[e].key, PREFIX)
              => \E q \in 1..Len(requests) : requests[q].entry = e


\* the calls of create_notes_file so far
Calls == {nlog[n] : n \in 1..Len(nlog)}

\* C4: a create_notes_file call on a directory whose index has a file with
\* the requested key fails naming such a file, fetches nothing, and leaves
\* every file of the directory as it was.
C4_ExistingKeyFails ==
    \A c \in Calls :
        (\E e \in files_with_metadata(c.before) : e.meta.key = c.key)
        => /\ c.outcome = "existing"
           /\ \E e \in files_with_metadata(c.before) : e.meta.key = c.key /\ e.path = c.path
           /\ ~c.fetched
           /\ c.after = c.before

\* C4 witness: a call was refused on a directory that has the key
C4_Witness ==
    \E c \in Calls :
        /\ c.outcome = "existing"
        /\ \E e \in files_with_metadata(c.before) : e.meta.key = c.key

\* the keys the header of a text carries: the values of the "key: " lines
\* between its first line, a delimiter line, and the next delimiter line
HeaderKeys(text) ==
    LET raw == Split(text, <<NL>>)
        closing == {n \in 2..Len(raw) : raw[n] = DELIM}
        last == CHOOSE n \in closing : \A m \in closing : n <= m
        prefix == <<"k", "e", "y", ":", " ">>
    IN  IF raw[1] # DELIM \/ closing = {} THEN {}
        ELSE {SubSeq(raw[n], Len(prefix) + 1, Len(raw[n])) :
                 n \in {m \in 2..(last - 1) : StartsWith(raw[m], prefix)}}

\* the directory was empty before the first call
StartedEmpty ==
    LET first == IF nlog = <<>> THEN dir ELSE nlog[1].before
    IN  \A p \in DOMAIN first : ~first[p].exists

\* C5 as stated: after create_notes_file calls on a directory that was empty,
\* no two files have headers with the same key.
C5_NoTwoFilesWithSameKey ==
    StartedEmpty
    => \A p, q \in DOMAIN dir :
           (p # q /\ dir[p].exists /\ dir[q].exists)
           => HeaderKeys(dir[p].data) \cap HeaderKeys(dir[q].data) = {}

\* the first delimiter of the text and the first one after it, 0 if none
FirstDelim == FindFrom(content, DELIM, 1)
SecondDelim == IF FirstDelim = 0 THEN 0 ELSE FindFrom(content, DELIM, FirstDelim + Len(DELIM))
OnlyWhitespaceBefore == \A i \in 1..(FirstDelim - 1) : content[i] \in Whitespace
Body == SubSeq(content, FirstDelim + Len(DELIM), SecondDelim - 1)

\* C6 as stated: get_metadata_str finds a header exactly when the text
\* before the first delimiter is whitespace, a second delimiter follows, and
\* the body between the two is not empty.
C6_AsStated ==
    meta.done
    => (meta.result.some <=>
           (FirstDelim # 0 /\ OnlyWhitespaceBefore /\ SecondDelim # 0 /\ Body # <<>>))

\* C6 amended: get_metadata_str finds a header exactly when the text before
\* the first delimiter is whitespace and a second delimiter follows; the
\* header is the text between the two, which may be empty; in every other
\* case the result is None.
C6_HeaderIffTwoDelimiters ==
    meta.done
    => /\ meta.result.some <=> (FirstDelim # 0 /\ OnlyWhitespaceBefore /\ SecondDelim # 0)
       /\ meta.result.some => meta.result.str = Body
       /\ ~meta.result.some => meta.result = None

\* C6 witness: a header with an empty body was found after leading whitespace
C6_Witness ==
    /\ meta.done
    /\ meta.result = Some(<<>>)
    /\ FirstDelim > 1

====
